---- MODULE Spec2Model ----
(***************************************************************************)
(* A model of demo_data_cleaning_pipeline.py: the csv extraction loop, the *)
(* three field normalizers and the quality gate of                         *)
(* clean_and_structure_data.                                               *)
(*                                                                         *)
(* A Python str is modelled as a sequence of one-character strings, so     *)
(* that strip(), title(), the csv splitting and strptime/strftime are      *)
(* computed character by character as the library computes them.  The     *)
(* alphabet of the model is printable ASCII plus "\t" and "\n", and two    *)
(* code points beyond ASCII, written "U+0130" and "U+0307", whose case      *)
(* mapping is not one character to one character.  The carriage return is  *)
(* outside the model.                                                      *)
(***************************************************************************)
EXTENDS Integers, Sequences, FiniteSets, TLC

VARIABLES
    csv_data,           \* the argument of clean_and_structure_data
    reader,             \* rows the csv.reader has still to yield
    header,             \* what next(reader) returned (line 61)
    extracted_records,  \* list built by the extraction loop (line 63)
    rec_idx,            \* position of the cleansing loop in extracted_records
    clean_records,      \* list built by the cleansing loop (line 88)
    stdout,             \* the lines printed so far, as tagged tuples
    pc,                 \* position in clean_and_structure_data
    libc_pads_year,     \* whether the platform's strftime pads %Y to 4 digits
    call,               \* normalizer harness: the function called and its argument
    ret                 \* normalizer harness: results of the successive applications

vars == <<csv_data, reader, header, extracted_records, rec_idx, clean_records,
          stdout, pc, libc_pads_year, call, ret>>

pipeline_vars == <<csv_data, reader, header, extracted_records, rec_idx,
                   clean_records, stdout, pc, libc_pads_year>>

harness_vars == <<call, ret>>

----------------------------------------------------------------------------
(* Characters *)

LowerSeq == <<"a","b","c","d","e","f","g","h","i","j","k","l","m",
              "n","o","p","q","r","s","t","u","v","w","x","y","z">>
UpperSeq == <<"A","B","C","D","E","F","G","H","I","J","K","L","M",
              "N","O","P","Q","R","S","T","U","V","W","X","Y","Z">>
DigitSeq == <<"0","1","2","3","4","5","6","7","8","9">>

Range(s) == {s[i] : i \in DOMAIN s}

LowerSet == Range(LowerSeq)
UpperSet == Range(UpperSeq)
DigitSet == Range(DigitSeq)

\* str.isspace for the characters of the model
WhiteSpace == {" ", "\t", "\n"}

IndexOf(c, s) == CHOOSE i \in DOMAIN s : s[i] = c

\* the character's uppercase / lowercase mapping (identity on uncased characters)
ToUpper(c) == IF c \in LowerSet THEN UpperSeq[IndexOf(c, LowerSeq)] ELSE c
ToLower(c) == IF c \in UpperSet THEN LowerSeq[IndexOf(c, UpperSeq)] ELSE c

\* LATIN CAPITAL LETTER I WITH DOT ABOVE, an uppercase letter whose lowercase
\* is the two code points "i", COMBINING DOT ABOVE
U_0130 == "U+0130"

\* COMBINING DOT ABOVE, a mark: it has no case and is no whitespace
U_0307 == "U+0307"

NonAscii == {U_0130, U_0307}

IsAscii(s) == \A i \in DOMAIN s : s[i] \notin NonAscii

\* _PyUnicode_IsCased: the character is a letter that has a case
IsCased(c) == c \in LowerSet \cup UpperSet \cup {U_0130}

\* the full lowercase mapping of a character (lower_ucs4): one or more characters
LowerFull(c) == IF c = U_0130 THEN <<"i", U_0307>> ELSE <<ToLower(c)>>

\* the full titlecase mapping of a character (_PyUnicode_ToTitleFull)
TitleFull(c) == <<ToUpper(c)>>

\* the sequences ss[lo], ..., ss[hi] joined; the range is halved so that the
\* evaluation stays shallow
RECURSIVE ConcatRange(_, _, _)
ConcatRange(ss, lo, hi) ==
    IF lo > hi THEN <<>>
    ELSE IF lo = hi THEN ss[lo]
    ELSE ConcatRange(ss, lo, (lo + hi) \div 2) \o ConcatRange(ss, (lo + hi) \div 2 + 1, hi)

Concat(ss) == ConcatRange(ss, 1, Len(ss))

DigitVal(c) == IndexOf(c, DigitSeq) - 1

LowerStr(s) == [i \in DOMAIN s |-> ToLower(s[i])]

----------------------------------------------------------------------------
(* str.strip() and str.title() *)

\* positions of the characters that are not whitespace
NonSpace(s) == { i \in DOMAIN s : s[i] \notin WhiteSpace }

SetMin(S) == CHOOSE i \in S : \A j \in S : i <= j
SetMax(S) == CHOOSE i \in S : \A j \in S : j <= i

\* str.lstrip(): from the first character that is not whitespace
LStrip(s) ==
    IF NonSpace(s) = {} THEN <<>> ELSE SubSeq(s, SetMin(NonSpace(s)), Len(s))

\* str.strip(): from the first to the last character that is not whitespace
Strip(s) ==
    IF NonSpace(s) = {} THEN <<>>
    ELSE SubSeq(s, SetMin(NonSpace(s)), SetMax(NonSpace(s)))

\* str.title() replaced by a capitalisation of each whitespace-delimited token
Title_PerToken(s) ==
    Concat([i \in DOMAIN s |->
        IF i = 1 \/ s[i - 1] \in WhiteSpace THEN TitleFull(s[i]) ELSE LowerFull(s[i])])

\* str.title(): one pass that keeps whether the previous character is cased
\* (previous_is_cased, FALSE before the first character); a character after
\* a cased one is replaced by its lowercase mapping, any other by its
\* titlecase mapping.
Title(s) ==
    Concat([i \in DOMAIN s |->
        LET previous_is_cased == i > 1 /\ IsCased(s[i - 1])
        IN  IF previous_is_cased THEN LowerFull(s[i]) ELSE TitleFull(s[i])])

\* _format_name (lines 108-110)
_format_name(name_str) == Title(Strip(name_str))

----------------------------------------------------------------------------
(* The correction table and _standardize_location *)

K_NYC == 
    <<"N"," ","Y","C">>
K_chicago ==
    <<"c","h","i","c","a","g","o">>
K_California ==
    <<"C","a","l","i","f","o","r","n","i","a">>
V_NewYork ==
    <<"N","e","w"," ","Y","o","r","k">>
V_Chicago ==
    <<"C","h","i","c","a","g","o">>
V_LosAngeles ==
    <<"L","o","s"," ","A","n","g","e","l","e","s">>

\* a correction table in which a canonical value is itself a key
LOCATION_CORRECTIONS_Chained ==
    { <<K_NYC, V_NewYork>>, <<K_chicago, V_Chicago>>, <<K_California, K_chicago>> }

\* LOCATION_CORRECTIONS (lines 28-32), a dict as a set of <<key, value>> pairs
LOCATION_CORRECTIONS ==
    { <<K_NYC, V_NewYork>>, <<K_chicago, V_Chicago>>, <<K_California, V_LosAngeles>> }

\* dict.get(key, default)
DictGet(d, key, default) ==
    IF \E kv \in d : kv[1] = key
    THEN (CHOOSE kv \in d : kv[1] = key)[2]
    ELSE default

\* _standardize_location (lines 132-134)
_standardize_location(location_str) ==
    DictGet(LOCATION_CORRECTIONS, Strip(location_str), Strip(location_str))

----------------------------------------------------------------------------
(* datetime.strptime / strftime and _standardize_date *)

\* Optional values: None is the empty sequence, a value v is <<v>>
None == <<>>
Some(v) == <<v>>

\* calendar.month_name[1..12] of the C locale, lowercased as _strptime keeps them
MonthNames == <<
    <<"j","a","n","u","a","r","y">>,
    <<"f","e","b","r","u","a","r","y">>,
    <<"m","a","r","c","h">>,
    <<"a","p","r","i","l">>,
    <<"m","a","y">>,
    <<"j","u","n","e">>,
    <<"j","u","l","y">>,
    <<"a","u","g","u","s","t">>,
    <<"s","e","p","t","e","m","b","e","r">>,
    <<"o","c","t","o","b","e","r">>,
    <<"n","o","v","e","m","b","e","r">>,
    <<"d","e","c","e","m","b","e","r">>
>>

IsDigits(t) == \A i \in DOMAIN t : t[i] \in DigitSet

\* the regex of %m: 1[0-2]|0[1-9]|[1-9]
IsMonthStr(t) ==
    \/ Len(t) = 1 /\ t[1] \in DigitSet \ {"0"}
    \/ Len(t) = 2 /\ t[1] = "1" /\ t[2] \in {"0", "1", "2"}
    \/ Len(t) = 2 /\ t[1] = "0" /\ t[2] \in DigitSet \ {"0"}

\* the regex of %d: 3[0-1]|[1-2]\d|0[1-9]|[1-9]| [1-9]
IsDayStr(t) ==
    \/ Len(t) = 1 /\ t[1] \in DigitSet \ {"0"}
    \/ Len(t) = 2 /\ t[1] = "3" /\ t[2] \in {"0", "1"}
    \/ Len(t) = 2 /\ t[1] \in {"1", "2"} /\ t[2] \in DigitSet
    \/ Len(t) = 2 /\ t[1] \in {"0", " "} /\ t[2] \in DigitSet \ {"0"}

\* the regex of %Y: \d\d\d\d
IsYearStr(t) == Len(t) = 4 /\ IsDigits(t)

\* int() of a matched group (a leading blank of the day is skipped)
RECURSIVE IntOfFrom(_, _)
IntOfFrom(t, acc) ==
    IF t = <<>> THEN acc
    ELSE IntOfFrom(Tail(t), IF Head(t) = " " THEN acc ELSE 10 * acc + DigitVal(Head(t)))

IntOf(t) == IntOfFrom(t, 0)

IsLeap(y) == (y % 4 = 0) /\ ((y % 100 # 0) \/ (y % 400 = 0))

DaysInMonth(y, m) ==
    IF m = 2 THEN (IF IsLeap(y) THEN 29 ELSE 28)
    ELSE IF m \in {4, 6, 9, 11} THEN 30 ELSE 31

\* datetime.date(y, m, d) accepts the triple (MINYEAR is 1)
ValidDate(y, m, d) ==
    /\ y >= 1 /\ y <= 9999
    /\ m >= 1 /\ m <= 12
    /\ d >= 1 /\ d <= DaysInMonth(y, m)

\* position of the first occurrence of c in t, 0 when there is none
FindChar(t, c) ==
    IF \E i \in DOMAIN t : t[i] = c
    THEN CHOOSE i \in DOMAIN t : t[i] = c /\ \A j \in 1..(i - 1) : t[j] # c
    ELSE 0

\* the groups of a full match become a date, or ValueError (None)
MakeDate(ystr, m, dstr) ==
    IF ValidDate(IntOf(ystr), m, IntOf(dstr))
    THEN Some(<<IntOf(ystr), m, IntOf(dstr)>>)
    ELSE None

\* datetime.strptime(s, '%m/%d/%Y'): <<year, month, day>>, or None for ValueError
Strptime_mdY(s) ==
    LET p1   == FindChar(s, "/")
        mstr == SubSeq(s, 1, p1 - 1)
        r1   == SubSeq(s, p1 + 1, Len(s))
        p2   == FindChar(r1, "/")
        dstr == SubSeq(r1, 1, p2 - 1)
        ystr == SubSeq(r1, p2 + 1, Len(r1))
    IN  IF p1 = 0 \/ p2 = 0 THEN None
        ELSE IF IsMonthStr(mstr) /\ IsDayStr(dstr) /\ IsYearStr(ystr)
        THEN MakeDate(ystr, IntOf(mstr), dstr)
        ELSE None

\* the full month name (any case) that s starts with, 0 when there is none
MonthPrefix(s) ==
    LET hits == { k \in DOMAIN MonthNames :
                    /\ Len(s) >= Len(MonthNames[k])
                    /\ LowerStr(SubSeq(s, 1, Len(MonthNames[k]))) = MonthNames[k] }
    IN  IF hits = {} THEN 0 ELSE CHOOSE k \in hits : TRUE

\* s without its leading run of whitespace (the \s+ of the compiled format)
SkipSpace(s) == LStrip(s)

\* datetime.strptime(s, '%B %d, %Y'): the blanks of the format match \s+
Strptime_BdY(s) ==
    LET k    == MonthPrefix(s)
        r0   == SubSeq(s, Len(MonthNames[k]) + 1, Len(s))
        r1   == SkipSpace(r0)
        p    == FindChar(r1, ",")
        dstr == SubSeq(r1, 1, p - 1)
        r2   == SubSeq(r1, p + 1, Len(r1))
        ystr == SkipSpace(r2)
    IN  IF k = 0 THEN None
        ELSE IF r1 = r0 \/ p = 0 THEN None
        ELSE IF ystr = r2 THEN None
        ELSE IF IsDayStr(dstr) /\ IsYearStr(ystr)
        THEN MakeDate(ystr, k, dstr)
        ELSE None

\* decimal digits of a natural number
RECURSIVE IntToStr(_)
IntToStr(n) ==
    IF n < 10 THEN <<DigitSeq[n + 1]>>
    ELSE Append(IntToStr(n \div 10), DigitSeq[(n % 10) + 1])

RECURSIVE ZeroPad(_, _)
ZeroPad(t, width) == IF Len(t) >= width THEN t ELSE ZeroPad(<<"0">> \o t, width)

\* strftime('%Y-%m-%d'): %m and %d are two digits; %Y is what the C library
\* prints, four digits zero-padded on some platforms and unpadded on others
Strftime_Ymd(date, pads_year) ==
    (IF pads_year THEN ZeroPad(IntToStr(date[1]), 4) ELSE IntToStr(date[1]))
        \o <<"-">> \o ZeroPad(IntToStr(date[2]), 2)
        \o <<"-">> \o ZeroPad(IntToStr(date[3]), 2)

\* _standardize_date (lines 112-130): the returned value (None when no format
\* parses) and the lines it prints
_standardize_date(date_str, pads_year) ==
    LET s  == Strip(date_str)
        d1 == Strptime_mdY(s)
        d2 == Strptime_BdY(s)
    IN  IF d1 # None
        THEN [value |-> Some(Strftime_Ymd(d1[1], pads_year)), printed |-> <<>>]
        ELSE IF d2 # None
        THEN [value |-> Some(Strftime_Ymd(d2[1], pads_year)), printed |-> <<>>]
        ELSE [value |-> None, printed |-> << <<"warn_date", s>> >>]

----------------------------------------------------------------------------
(* csv.reader over io.StringIO(csv_data), default (excel) dialect:           *)
(* delimiter ",", quotechar '"', doublequote, not strict.  The parser is the *)
(* state machine of Reader_iternext / parse_process_char of _csv.c.          *)

\* iterating io.StringIO(text): the lines, each with its line break (the last
\* line has none when the text does not end with one)
LineStarts(text) ==
    IF text = <<>> THEN {}
    ELSE {1} \cup { i + 1 : i \in { j \in 1..(Len(text) - 1) : text[j] = "\n" } }

LineEnd(text, s) ==
    IF \E i \in s..Len(text) : text[i] = "\n"
    THEN CHOOSE i \in s..Len(text) : text[i] = "\n" /\ \A j \in s..(i - 1) : text[j] # "\n"
    ELSE Len(text)

RawLines(text) ==
    LET starts == LineStarts(text) IN
    [k \in 1..Cardinality(starts) |->
        LET s == CHOOSE u \in starts : Cardinality({v \in starts : v < u}) = k - 1
        IN  SubSeq(text, s, LineEnd(text, s))]

\* parse_reset: the parser at the start of a record
ParseReset == [state |-> "START_RECORD", field |-> <<>>, fields |-> <<>>]

\* parse_save_field
SaveField(st, state) ==
    [state |-> state, field |-> <<>>, fields |-> Append(st.fields, st.field)]

AddChar(st, c, state) == [st EXCEPT !.state = state, !.field = Append(st.field, c)]

\* parse_process_char for a character of the line; a character other than a
\* line break after the line break of an unquoted field is csv.Error
RECURSIVE ProcessChar(_, _)
ProcessChar(st, c) ==
    CASE st.state = "START_RECORD" ->
            IF c = "\n" THEN [st EXCEPT !.state = "EAT_CRNL"]
            ELSE ProcessChar([st EXCEPT !.state = "START_FIELD"], c)
      [] st.state = "START_FIELD" ->
            IF c = "\n" THEN SaveField(st, "EAT_CRNL")
            ELSE IF c = "\"" THEN [st EXCEPT !.state = "IN_QUOTED_FIELD"]
            ELSE IF c = "," THEN SaveField(st, "START_FIELD")
            ELSE AddChar(st, c, "IN_FIELD")
      [] st.state = "IN_FIELD" ->
            IF c = "\n" THEN SaveField(st, "EAT_CRNL")
            ELSE IF c = "," THEN SaveField(st, "START_FIELD")
            ELSE AddChar(st, c, "IN_FIELD")
      [] st.state = "IN_QUOTED_FIELD" ->
            IF c = "\"" THEN [st EXCEPT !.state = "QUOTE_IN_QUOTED_FIELD"]
            ELSE AddChar(st, c, "IN_QUOTED_FIELD")
      [] st.state = "QUOTE_IN_QUOTED_FIELD" ->
            IF c = "\"" THEN AddChar(st, c, "IN_QUOTED_FIELD")
            ELSE IF c = "," THEN SaveField(st, "START_FIELD")
            ELSE IF c = "\n" THEN SaveField(st, "EAT_CRNL")
            ELSE AddChar(st, c, "IN_FIELD")
      [] st.state = "EAT_CRNL" ->
            IF c = "\n" THEN st ELSE [st EXCEPT !.state = "ERROR"]
      [] st.state = "ERROR" -> st

\* parse_process_char for the end-of-line marker that follows the line
ProcessEOL(st) ==
    CASE st.state \in {"START_RECORD", "EAT_CRNL"} -> [st EXCEPT !.state = "START_RECORD"]
      [] st.state \in {"START_FIELD", "IN_FIELD", "QUOTE_IN_QUOTED_FIELD"} ->
            SaveField(st, "START_RECORD")
      [] st.state \in {"IN_QUOTED_FIELD", "ERROR"} -> st

\* the only element of a singleton set
TheOne(S) == CHOOSE v \in S : TRUE

\* the loop over the characters lo..hi of the line, left to right; the range
\* is halved and the state after the left half is computed once, as a value,
\* so that the evaluation stays shallow; the loop stops at the first error
RECURSIVE ProcessChars(_, _, _, _)
ProcessChars(st, line, lo, hi) ==
    IF lo > hi THEN st
    ELSE IF lo = hi THEN ProcessChar(st, line[lo])
    ELSE LET mid == (lo + hi) \div 2 IN
         TheOne({ IF left.state = "ERROR" THEN left
                  ELSE ProcessChars(left, line, mid + 1, hi) :
                      left \in { ProcessChars(st, line, lo, mid) } })

\* one line fed to the parser: its characters, then the marker
ProcessLine(st, line) == ProcessEOL(ProcessChars(st, line, 1, Len(line)))

\* Reader_iternext, repeated until the lines run out: a record ends with the
\* line that leaves the parser in START_RECORD; when the lines run out inside
\* a quoted field the pending fields are one more record (strict is off)
RECURSIVE ReadRows(_, _, _)
ReadRows(lines, st, rows) ==
    IF lines = <<>>
    THEN IF st.field # <<>> \/ st.state = "IN_QUOTED_FIELD"
         THEN Append(rows, Append(st.fields, st.field))
         ELSE rows
    ELSE LET st2 == ProcessLine(st, Head(lines)) IN
         IF st2.state = "START_RECORD"
         THEN ReadRows(Tail(lines), ParseReset, Append(rows, st2.fields))
         ELSE ReadRows(Tail(lines), st2, rows)

\* list(csv.reader(io.StringIO(text))): the rows, each a list of fields
CsvRows(text) == ReadRows(RawLines(text), ParseReset, <<>>)

----------------------------------------------------------------------------
(* Input texts *)

\* the header line of MESSY_CSV_DATA (line 17): Internal ID,Full Name,Signup Date,Region,Notes
LINE_HEADER ==
    <<"I","n","t","e","r","n","a","l"," ","I","D",",","F","u","l","l"," ",
      "N","a","m","e",",","S","i","g","n","u","p"," ","D","a","t","e",",",
      "R","e","g","i","o","n",",","N","o","t","e","s">>

\* line 18: 1001,john doe,01/05/2023,New York,First contact
LINE_1001 ==
    <<"1","0","0","1",",","j","o","h","n"," ","d","o","e",",","0","1","/",
      "0","5","/","2","0","2","3",",","N","e","w"," ","Y","o","r","k",",",
      "F","i","r","s","t"," ","c","o","n","t","a","c","t">>

\* line 19: 1002,Jane Smith,May 2, 2023,N YC,Met at conference
LINE_1002 ==
    <<"1","0","0","2",",","J","a","n","e"," ","S","m","i","t","h",",","M",
      "a","y"," ","2",","," ","2","0","2","3",",","N"," ","Y","C",",","M",
      "e","t"," ","a","t"," ","c","o","n","f","e","r","e","n","c","e">>

\* line 20: 1003,peter jones,03-05-2023,Chicago,
LINE_1003 ==
    <<"1","0","0","3",",","p","e","t","e","r"," ","j","o","n","e","s",",",
      "0","3","-","0","5","-","2","0","2","3",",","C","h","i","c","a","g",
      "o",",">>

\* line 21: ,Emily White,June 15, 2023,Los Angeles,Missing ID
LINE_1004 ==
    <<",","E","m","i","l","y"," ","W","h","i","t","e",",","J","u","n","e",
      " ","1","5",","," ","2","0","2","3",",","L","o","s"," ","A","n","g",
      "e","l","e","s",",","M","i","s","s","i","n","g"," ","I","D">>

\* line 22: 1005,MICHAEL BROWN,,California,No signup date
LINE_1005 ==
    <<"1","0","0","5",",","M","I","C","H","A","E","L"," ","B","R","O","W",
      "N",",",",","C","a","l","i","f","o","r","n","i","a",",","N","o"," ",
      "s","i","g","n","u","p"," ","d","a","t","e">>

\* line 23: 1006,Sarah Green,20th of April 2023,chicago,
LINE_1006 ==
    <<"1","0","0","6",",","S","a","r","a","h"," ","G","r","e","e","n",",",
      "2","0","t","h"," ","o","f"," ","A","p","r","i","l"," ","2","0","2",
      "3",",","c","h","i","c","a","g","o",",">>

\* a blank line: 
LINE_BLANK ==
    <<>>

\* a row of two columns: 1007,x y
LINE_SHORT ==
    <<"1","0","0","7",",","x"," ","y">>

\* a row whose name cell is one blank: 1008, ,01/05/2023,chicago,
LINE_WSNAME ==
    <<"1","0","0","8",","," ",",","0","1","/","0","5","/","2","0","2","3",
      ",","c","h","i","c","a","g","o",",">>

\* a row whose date is no calendar date: 1009,al o'neil,02/30/2023, N YC ,
LINE_BADDAY ==
    <<"1","0","0","9",",","a","l"," ","o","'","n","e","i","l",",","0","2",
      "/","3","0","/","2","0","2","3",","," ","N"," ","Y","C"," ",",">>

\* a row whose year is below 1000: 1010,bo,01/05/0999,N YC,
LINE_OLDYEAR ==
    <<"1","0","1","0",",","b","o",",","0","1","/","0","5","/","0","9","9",
      "9",",","N"," ","Y","C",",">>

\* a row with the Notes field omitted (four columns): 1011,cy lee,1/5/2023,Chicago
LINE_FOUR ==
    <<"1","0","1","1",",","c","y"," ","l","e","e",",","1","/","5","/","2",
      "0","2","3",",","C","h","i","c","a","g","o">>

\* a row whose long-form date is a quoted cell: 1012,di,"May 2, 2023",California,q
LINE_QUOTED ==
    <<"1","0","1","2",",","d","i",",","\"","M","a","y"," ","2",","," ","2",
      "0","2","3","\"",",","C","a","l","i","f","o","r","n","i","a",",","q">>

\* MESSY_CSV_DATA (lines 16-24): the literal opens with a line break, so its
\* first line is blank and the header line is its second line
MESSY_CSV_DATA ==
    <<"\n">> \o LINE_HEADER \o <<"\n">> \o LINE_1001 \o <<"\n">> \o LINE_1002
        \o <<"\n">> \o LINE_1003 \o <<"\n">> \o LINE_1004 \o <<"\n">> \o LINE_1005
        \o <<"\n">> \o LINE_1006 \o <<"\n">>

\* the longest generated input, in lines
MaxLines == 3

\* the lines the generated inputs are made of
LinePool ==
    { LINE_HEADER, LINE_1001, LINE_1002, LINE_BLANK, LINE_SHORT, LINE_WSNAME,
      LINE_OLDYEAR, LINE_FOUR, LINE_QUOTED }

\* the lines, each ended by a line break, as one text
RECURSIVE JoinLines(_)
JoinLines(ls) ==
    IF ls = <<>> THEN <<>> ELSE Head(ls) \o <<"\n">> \o JoinLines(Tail(ls))

\* the lines of a text without their line breaks
StripNewline(line) ==
    IF line # <<>> /\ line[Len(line)] = "\n" THEN SubSeq(line, 1, Len(line) - 1) ELSE line

Lines(text) == [k \in DOMAIN RawLines(text) |-> StripNewline(RawLines(text)[k])]

SeqsUpTo(S, n) == UNION { [1..k -> S] : k \in 0..n }

\* a table whose last line has no line break
NO_FINAL_NEWLINE == LINE_HEADER \o <<"\n">> \o LINE_1001

\* a table with well-formed, short, quoted and incomplete rows in turn
MIXED_TABLE ==
    JoinLines(<<LINE_HEADER, LINE_1001, LINE_SHORT, LINE_QUOTED, LINE_1005,
                LINE_BLANK, LINE_FOUR, LINE_BADDAY>>)

PipelineInputs ==
    { MESSY_CSV_DATA, NO_FINAL_NEWLINE, MIXED_TABLE }
        \cup { JoinLines(ls) : ls \in SeqsUpTo(LinePool, MaxLines) }

----------------------------------------------------------------------------
(* clean_and_structure_data (lines 34-106) *)

\* row[1], row[2], row[3] (lines 67-69) raise IndexError
RaisesIndexError(row) == ~ (2 \in DOMAIN row /\ 3 \in DOMAIN row /\ 4 \in DOMAIN row)

\* the dict appended at line 73
ExtractedRecord(row) == [name |-> row[2], date_str |-> row[3], location |-> row[4]]

\* truth value of a str
Truthy(s) == s # <<>>

\* the dict appended at lines 99-103
CleanRecordOf(record, pads_year) ==
    [name        |-> _format_name(record.name),
     signup_date |-> _standardize_date(record.date_str, pads_year).value[1],
     location    |-> _standardize_location(record.location)]

\* the quality gate of line 98: the standardized date is neither None nor ''
PassesGate(record, pads_year) ==
    LET d == _standardize_date(record.date_str, pads_year).value
    IN  d # None /\ Truthy(d[1])

Init ==
    /\ csv_data \in PipelineInputs
    /\ libc_pads_year \in BOOLEAN
    /\ reader = <<>>
    /\ header = <<>>
    /\ extracted_records = <<>>
    /\ rec_idx = 0
    /\ clean_records = <<>>
    /\ stdout = <<>>
    /\ pc = "start"
    /\ call = [fn |-> "none", arg |-> <<>>]
    /\ ret = <<>>

\* lines 54-58: the reader over the text
OpenReader ==
    /\ pc = "start"
    /\ reader' = CsvRows(csv_data)
    /\ stdout' = Append(stdout, <<"step1">>)
    /\ pc' = "header"
    /\ UNCHANGED <<csv_data, header, extracted_records, rec_idx, clean_records,
                   libc_pads_year, call, ret>>

\* lines 61-63: next(reader) on a reader that yields a row
SkipHeader ==
    /\ pc = "header"
    /\ reader # <<>>
    /\ header' = Head(reader)
    /\ reader' = Tail(reader)
    /\ extracted_records' = <<>>
    /\ pc' = "extract"
    /\ UNCHANGED <<csv_data, rec_idx, clean_records, stdout, libc_pads_year, call, ret>>

\* line 61: next(reader) on an exhausted reader raises StopIteration, which
\* nothing in the function catches
HeaderStopIteration ==
    /\ pc = "header"
    /\ reader = <<>>
    /\ pc' = "raised"
    /\ UNCHANGED <<csv_data, reader, header, extracted_records, rec_idx,
                   clean_records, stdout, libc_pads_year, call, ret>>

\* the extraction loop with a handler that leaves the loop instead of
\* continuing with the next row
ExtractRow_BreakOnShort ==
    /\ pc = "extract"
    /\ reader # <<>>
    /\ LET row == Head(reader) IN
        IF RaisesIndexError(row)
        THEN /\ stdout' = Append(stdout, <<"skip", row>>)
             /\ reader' = <<>>
             /\ UNCHANGED extracted_records
        ELSE /\ reader' = Tail(reader)
             /\ extracted_records' =
                   IF Truthy(row[2]) /\ Truthy(row[3])
                   THEN Append(extracted_records, ExtractedRecord(row))
                   ELSE extracted_records
             /\ UNCHANGED stdout
    /\ UNCHANGED <<csv_data, header, rec_idx, clean_records, pc, libc_pads_year,
                   call, ret>>

\* lines 64-77: one iteration of the extraction loop
ExtractRow ==
    /\ pc = "extract"
    /\ reader # <<>>
    /\ LET row == Head(reader) IN
        /\ reader' = Tail(reader)
        /\ IF RaisesIndexError(row)
           THEN /\ stdout' = Append(stdout, <<"skip", row>>)
                /\ UNCHANGED extracted_records
           ELSE /\ extracted_records' =
                      IF Truthy(row[2]) /\ Truthy(row[3])
                      THEN Append(extracted_records, ExtractedRecord(row))
                      ELSE extracted_records
                /\ UNCHANGED stdout
    /\ UNCHANGED <<csv_data, header, rec_idx, clean_records, pc, libc_pads_year,
                   call, ret>>

\* lines 79-88: the reader is exhausted; the cleansing loop starts
ExtractDone ==
    /\ pc = "extract"
    /\ reader = <<>>
    /\ stdout' = stdout \o << <<"extracted", Len(extracted_records)>>, <<"step2">> >>
    /\ clean_records' = <<>>
    /\ rec_idx' = 1
    /\ pc' = "clean"
    /\ UNCHANGED <<csv_data, reader, header, extracted_records, libc_pads_year,
                   call, ret>>

\* the cleansing loop with the record put at the front of the list
CleanRecord_Prepend ==
    /\ pc = "clean"
    /\ rec_idx \in DOMAIN extracted_records
    /\ LET record == extracted_records[rec_idx] IN
        /\ stdout' = stdout \o _standardize_date(record.date_str, libc_pads_year).printed
        /\ clean_records' =
              IF PassesGate(record, libc_pads_year)
              THEN <<CleanRecordOf(record, libc_pads_year)>> \o clean_records
              ELSE clean_records
    /\ rec_idx' = rec_idx + 1
    /\ UNCHANGED <<csv_data, reader, header, extracted_records, pc, libc_pads_year,
                   call, ret>>

\* lines 89-103: one iteration of the cleansing loop
CleanRecord ==
    /\ pc = "clean"
    /\ rec_idx \in DOMAIN extracted_records
    /\ LET record == extracted_records[rec_idx] IN
        /\ stdout' = stdout \o _standardize_date(record.date_str, libc_pads_year).printed
        /\ clean_records' =
              IF PassesGate(record, libc_pads_year)
              THEN Append(clean_records, CleanRecordOf(record, libc_pads_year))
              ELSE clean_records
    /\ rec_idx' = rec_idx + 1
    /\ UNCHANGED <<csv_data, reader, header, extracted_records, pc, libc_pads_year,
                   call, ret>>

\* lines 105-106: the loop is over; the list is returned
Return ==
    /\ pc = "clean"
    /\ rec_idx \notin DOMAIN extracted_records
    /\ stdout' = Append(stdout, <<"cleaned", Len(clean_records)>>)
    /\ pc' = "done"
    /\ UNCHANGED <<csv_data, reader, header, extracted_records, rec_idx,
                   clean_records, libc_pads_year, call, ret>>

Next ==
    \/ OpenReader
    \/ SkipHeader
    \/ HeaderStopIteration
    \/ ExtractRow
    \/ ExtractDone
    \/ CleanRecord
    \/ Return

Spec == Init /\ [][Next]_vars

----------------------------------------------------------------------------
(* The value clean_and_structure_data returns, as a function of its argument *)

\* lines 64-77 over all the rows: the list extracted_records
RECURSIVE ExtractAll(_)
ExtractAll(rows) ==
    IF rows = <<>> THEN <<>>
    ELSE LET row == Head(rows) IN
         IF ~ RaisesIndexError(row) /\ Truthy(row[2]) /\ Truthy(row[3])
         THEN <<ExtractedRecord(row)>> \o ExtractAll(Tail(rows))
         ELSE ExtractAll(Tail(rows))

\* lines 89-103 over all the records: the list clean_records
RECURSIVE CleanAll(_, _)
CleanAll(records, pads_year) ==
    IF records = <<>> THEN <<>>
    ELSE IF PassesGate(Head(records), pads_year)
    THEN <<CleanRecordOf(Head(records), pads_year)>> \o CleanAll(Tail(records), pads_year)
    ELSE CleanAll(Tail(records), pads_year)

\* the list returned for a text whose reader yields at least one row
Pipeline(text, pads_year) == CleanAll(ExtractAll(Tail(CsvRows(text))), pads_year)

----------------------------------------------------------------------------
(* The normalizers called on their own: _format_name and                     *)
(* _standardize_location applied to a text, and again to their own result    *)

\* the longest generated argument, in characters
MaxTextLen == 3

\* how many times a normalizer is applied in a row
MaxApply == 2

NormAlphabet == {"a", "B", " ", "'", "-", "3", U_0130}

ARG_PADDED_KEY ==
    <<"\t"," ","c","h","i","c","a","g","o"," ","\n">>
ARG_UPPER_NAME ==
    <<" "," ","M","I","C","H","A","E","L"," ","B","R","O","W","N">>
ARG_APOSTROPHE ==
    <<"a","l"," ","o","'","n","e","i","l","-","m","c","3","r","d">>

NormInputs ==
    SeqsUpTo(NormAlphabet, MaxTextLen)
        \cup { K_NYC, K_chicago, K_California, V_NewYork, V_Chicago, V_LosAngeles,
               ARG_PADDED_KEY, ARG_UPPER_NAME, ARG_APOSTROPHE }

InitNorm ==
    /\ call \in [fn : {"_format_name", "_standardize_location"}, arg : NormInputs]
    /\ ret = <<>>
    /\ csv_data = <<>>
    /\ libc_pads_year = FALSE
    /\ reader = <<>>
    /\ header = <<>>
    /\ extracted_records = <<>>
    /\ rec_idx = 0
    /\ clean_records = <<>>
    /\ stdout = <<>>
    /\ pc = "idle"

\* the argument of the next application: the text, then the previous result
NextArg == IF ret = <<>> THEN call.arg ELSE ret[Len(ret)]

\* a call of _format_name (lines 108-110)
ApplyFormatName ==
    /\ call.fn = "_format_name"
    /\ Len(ret) < MaxApply
    /\ ret' = Append(ret, _format_name(NextArg))
    /\ UNCHANGED <<call, pipeline_vars>>

\* a call of _standardize_location (lines 132-134)
ApplyStandardizeLocation ==
    /\ call.fn = "_standardize_location"
    /\ Len(ret) < MaxApply
    /\ ret' = Append(ret, _standardize_location(NextArg))
    /\ UNCHANGED <<call, pipeline_vars>>

NextNorm ==
    \/ ApplyFormatName
    \/ ApplyStandardizeLocation

SpecNorm == InitNorm /\ [][NextNorm]_vars

----------------------------------------------------------------------------
(* Properties *)

\* the rows after the one next(reader) consumed
DataRows(text) == Tail(CsvRows(text))

\* the k-th smallest element of a set of numbers
Kth(S, k) == CHOOSE u \in S : Cardinality({v \in S : v < u}) = k - 1

\* the text without its k-th line
RemoveLine(text, k) ==
    LET ls == RawLines(text) IN
    Concat([j \in 1..(Len(ls) - 1) |-> IF j < k THEN ls[j] ELSE ls[j + 1]])

\* the line, read as a row of its own, has fewer columns than the extractor reads
IsMalformedLine(line) == RaisesIndexError(CsvRows(line \o <<"\n">>)[1])

\* the data lines (second line onwards) that are malformed rows
MalformedDataLines(text) ==
    { k \in 2..Len(Lines(text)) : IsMalformedLine(Lines(text)[k]) }

Printed(tag) == { i \in DOMAIN stdout : stdout[i][1] = tag }

\* the row the header line parses to
HeaderRow == CsvRows(LINE_HEADER)[1]

\* number of logical columns of a well-formed row (the header of line 17)
NumColumns == 5

NAME_JANE ==
    <<"J","a","n","e"," ","S","m","i","t","h">>
NAME_EMILY ==
    <<"E","m","i","l","y"," ","W","h","i","t","e">>
DATE_20230502 ==
    <<"2","0","2","3","-","0","5","-","0","2">>
DATE_20230615 ==
    <<"2","0","2","3","-","0","6","-","1","5">>

\* C1: for every text, the run ends by returning; no exception reaches the caller.
C1_NeverRaises == pc # "raised"

\* C2: a data line equal to the sample row 1002 (Jane Smith, May 2, 2023, N YC)
\* yields the record {Jane Smith, 2023-05-02, New York}, and one equal to the
\* sample row of Emily White yields {Emily White, 2023-06-15, Los Angeles}.
C2_LongFormRowsCleaned ==
    pc = "done" =>
        \A k \in 2..Len(Lines(csv_data)) :
            /\ Lines(csv_data)[k] = LINE_1002 =>
                  [name |-> NAME_JANE, signup_date |-> DATE_20230502,
                   location |-> V_NewYork] \in Range(clean_records)
            /\ Lines(csv_data)[k] = LINE_1004 =>
                  [name |-> NAME_EMILY, signup_date |-> DATE_20230615,
                   location |-> V_LosAngeles] \in Range(clean_records)

\* YYYY-MM-DD, zero-padded, denoting a calendar date
IsCanonicalDate(t) ==
    /\ Len(t) = 10
    /\ t[5] = "-" /\ t[8] = "-"
    /\ IsDigits(SubSeq(t, 1, 4)) /\ IsDigits(SubSeq(t, 6, 7)) /\ IsDigits(SubSeq(t, 9, 10))
    /\ ValidDate(IntOf(SubSeq(t, 1, 4)), IntOf(SubSeq(t, 6, 7)), IntOf(SubSeq(t, 9, 10)))

MatchesKnownFormat(s) == Strptime_mdY(Strip(s)) # None \/ Strptime_BdY(Strip(s)) # None

\* C3: every record of the output has a signup_date of the form YYYY-MM-DD
\* (zero-padded, four-digit year) that is a calendar date, and the output holds
\* exactly the extracted records whose date string matches a known format.
C3_CanonicalDates ==
    /\ \A i \in DOMAIN clean_records : IsCanonicalDate(clean_records[i].signup_date)
    /\ pc = "done" =>
          Len(clean_records) =
              Cardinality({ i \in DOMAIN extracted_records :
                              MatchesKnownFormat(extracted_records[i].date_str) })

\* the text is a header line (after blank lines, if any) followed by data lines
IsHeaderedTable(text) ==
    LET ls == Lines(text) IN
    \E h \in DOMAIN ls :
        /\ ls[h] = LINE_HEADER
        /\ \A j \in 1..(h - 1) : ls[j] = <<>>
        /\ h < Len(ls)
        /\ \A j \in (h + 1)..Len(ls) : ls[j] # LINE_HEADER

\* C4: the header line of a table is never read as a data row: no extracted
\* record is made of its cells and no diagnostic names one of its cells.
C4_HeaderIgnored ==
    IsHeaderedTable(csv_data) =>
        /\ \A i \in DOMAIN extracted_records :
              extracted_records[i] # ExtractedRecord(HeaderRow)
        /\ \A i \in Printed("warn_date") : stdout[i][2] # HeaderRow[3]
        /\ \A i \in Printed("skip") : stdout[i][2] # HeaderRow

\* C5: a data row shorter than the five logical columns is skipped with a
\* diagnostic and adds no extracted record.
C5_ShortRowSkipped ==
    [][ (pc = "extract" /\ reader # <<>> /\ Len(Head(reader)) < NumColumns)
            => /\ extracted_records' = extracted_records
               /\ stdout' = Append(stdout, <<"skip", Head(reader)>>) ]_vars

\* the clean record is what the three normalizers make of the row's cells
IsImageOf(clean, row, pads_year) ==
    /\ ~ RaisesIndexError(row)
    /\ clean.name = _format_name(row[2])
    /\ _standardize_date(row[3], pads_year).value = Some(clean.signup_date)
    /\ clean.location = _standardize_location(row[4])

\* C6: the returned records are the images of a subsequence of the data rows:
\* same relative order, at most one record per row.
C6_OrderPreserved ==
    pc = "done" =>
        LET rows == DataRows(csv_data) IN
        \E picked \in SUBSET (DOMAIN rows) :
            /\ Cardinality(picked) = Len(clean_records)
            /\ \A k \in DOMAIN clean_records :
                  IsImageOf(clean_records[k], rows[Kth(picked, k)], libc_pads_year)

\* two different records were returned and a row between or around them gave none
C6_Witness ==
    /\ pc = "done"
    /\ Len(clean_records) >= 2
    /\ clean_records[1] # clean_records[2]
    /\ Len(DataRows(csv_data)) > Len(clean_records)

\* C7 as stated (for ASCII texts already): in the formatted name every letter
\* that starts a whitespace-delimited token is uppercase and every other
\* letter is lowercase.
C7_TokenCapitalized ==
    (call.fn = "_format_name" /\ ret # <<>> /\ IsAscii(call.arg)) =>
        LET y == ret[1] IN
        /\ LowerStr(y) = LowerStr(Strip(call.arg))
        /\ \A i \in DOMAIN y :
              IsCased(y[i]) =>
                  IF i = 1 \/ y[i - 1] \in WhiteSpace
                  THEN y[i] \in UpperSet ELSE y[i] \in LowerSet

\* C7 amended: for a text of ASCII characters the formatted name is the
\* trimmed text with every letter that does not follow a letter uppercase and
\* every letter that follows a letter lowercase.
C7_LetterRunCapitalized ==
    (call.fn = "_format_name" /\ ret # <<>> /\ IsAscii(call.arg)) =>
        LET y == ret[1] IN
        /\ LowerStr(y) = LowerStr(Strip(call.arg))
        /\ \A i \in DOMAIN y :
              IsCased(y[i]) =>
                  IF i = 1 \/ ~ IsCased(y[i - 1])
                  THEN y[i] \in UpperSet ELSE y[i] \in LowerSet

\* a name was formatted in which a lowercase letter after an apostrophe, a
\* hyphen or a digit came out uppercase
C7_Witness ==
    /\ call.fn = "_format_name"
    /\ ret # <<>>
    /\ IsAscii(call.arg)
    /\ \E i \in DOMAIN ret[1] :
          /\ i > 1
          /\ ret[1][i - 1] \in {"'", "-", "3"}
          /\ ret[1][i] \in UpperSet
          /\ Strip(call.arg)[i] \in LowerSet

\* no canonical value of the correction table is a key of the table
NoValueIsKey ==
    \A kv \in LOCATION_CORRECTIONS : \A kv2 \in LOCATION_CORRECTIONS : kv2[1] # kv[2]

\* C8 as stated: for every text, a normalizer applied to its own result
\* returns that result, and no canonical value of the table is a key of it.
C8_Idempotent ==
    /\ Len(ret) >= 2 => ret[2] = ret[1]
    /\ NoValueIsKey

\* C8 amended: _standardize_location applied to its own result returns that
\* result for every text, no canonical value of the table being a key of it;
\* _format_name does so for every text of ASCII characters.
C8_IdempotentOnAscii ==
    /\ (Len(ret) >= 2 /\ (call.fn = "_format_name" => IsAscii(call.arg)))
          => ret[2] = ret[1]
    /\ NoValueIsKey

\* a location that the table corrects was corrected and then corrected again,
\* or an ASCII name that the formatter changes was formatted and then
\* formatted again
C8_Witness ==
    /\ Len(ret) = 2
    /\ \/ call.fn = "_standardize_location" /\ ret[1] # Strip(call.arg)
       \/ call.fn = "_format_name" /\ IsAscii(call.arg) /\ ret[1] # call.arg

\* C9: each malformed data line gives one diagnostic and no record, and the
\* list returned is the one returned for the text without that line.
C9_MalformedRowIsLocal ==
    pc = "done" =>
        /\ \A k \in MalformedDataLines(csv_data) :
              clean_records = Pipeline(RemoveLine(csv_data, k), libc_pads_year)
        /\ Cardinality(Printed("skip")) = Cardinality(MalformedDataLines(csv_data))
        /\ \A i \in Printed("skip") : RaisesIndexError(stdout[i][2])

\* a malformed data line was followed by a line that gave a record
C9_Witness ==
    /\ pc = "done"
    /\ \E k \in MalformedDataLines(csv_data) :
          \E j \in (k + 1)..Len(Lines(csv_data)) :
              /\ Pipeline(JoinLines(<<LINE_HEADER, Lines(csv_data)[j]>>), libc_pads_year) # <<>>
              /\ clean_records # <<>>

\* C10: every record of the output has a name that is not empty.
C10_NamesNonEmpty == \A i \in DOMAIN clean_records : clean_records[i].name # <<>>

====
